---------------------------- MODULE Spec2Model ----------------------------
(***************************************************************************)
(* Model of metal-gabe/mcp-server-freecad.                                 *)
(*                                                                         *)
(* Two parts share this module:                                            *)
(*   - the addon's RPC lifecycle (comm_server.py: start_rpc_server,        *)
(*     stop_rpc_server) together with the Command Bridge it imports from   *)
(*     comm_server/utils.py (process_gui_tasks, request_queue,             *)
(*     response_queue).  utils.py and freecad_rpc.py are not among the     *)
(*     source files, so the bridge is modelled from spec.md section 4.1;   *)
(*     specifications Spec and SpecBridge.                                 *)
(*   - the Operation Executor (server.py: MCPServerFreeCAD); specifications*)
(*     SpecExec (creation and boolean operations), SpecPlace (placement)   *)
(*     and SpecTools (every tool, through both of its entry points).       *)
(***************************************************************************)
EXTENDS Integers, Sequences, FiniteSets, TLC

VARIABLES
    \* ---- comm_server.py module globals and the host's threads/timers
    rpc_server_instance,  \* 0 = None, else the id of the SimpleXMLRPCServer
    rpc_server_thread,    \* 0 = None, else the id of the listener thread
    servers,              \* the server instances that exist
    threads,              \* the listener threads started and not finished
    shutdown_request,     \* serve_forever's shutdown flag of the instance
    n_started,            \* how many listeners were created so far
    timers,               \* pending QTimer.singleShot(process_gui_tasks)
    gui,                  \* position of the GUI thread
    status,               \* what the last start/stop call returned
    \* ---- the Command Bridge (utils.py)
    request_queue,        \* FIFO of PendingCall
    response_queue,       \* CallResults produced and not yet consumed
    todo,                 \* calls the running drain still has to execute
    cur,                  \* the call the executor is running
    running,              \* calls whose execution has started, not finished
    pc,                   \* caller thread -> "idle" | "waiting"
    mine,                 \* caller thread -> call_id of its last submit
    got,                  \* caller thread -> what its last submit returned
    next_id,              \* the next call_id
    \* ---- history (observation only)
    enqueued,             \* PendingCalls in the order they were enqueued
    executed,             \* PendingCalls in the order their execution started
    produced,             \* call_id -> the CallResults created for it
    delivered,            \* call_id -> number of returns from submit
    drain_snapshot,       \* queue (call_ids) when the last drain started
    drain_executed,       \* call_ids the last drain executed
    arrived,              \* call_ids enqueued since the last drain started
    arrived_exec,         \* those enqueued while the executor was running
    before,               \* the listener state the last start call found
    stop_report,          \* callers waiting for a result not yet produced
                          \* when the last stop began -> how their submit
                          \* was resolved while stop ran
    \* ---- server.py: MCPServerFreeCAD
    doc,                  \* self.doc: 0 = None, 1 = a document
    objects,              \* self.doc.Objects, in creation order
    reply,                \* what the last operation returned
    written,              \* the files the last operation wrote: for each,
                          \* the names of the objects whose meshes it holds
    \* ---- history (observation only)
    last,                 \* the last operation and what it was given
    plain,                \* the document holds nothing but boxes that were
                          \* created without a name
    moves                 \* the successful move_object calls on the active
                          \* document, in call order

lifecycle_vars == <<rpc_server_instance, rpc_server_thread, servers, threads,
                    shutdown_request, n_started, status, before>>
pump_vars == <<timers, gui>>
drain_vars == <<todo, cur, running, executed, produced, drain_snapshot,
                drain_executed>>
caller_vars == <<pc, mine, got, next_id, delivered>>
bridge_vars == <<lifecycle_vars, pump_vars, drain_vars, caller_vars,
                 request_queue, response_queue, enqueued, arrived,
                 arrived_exec, stop_report>>

exec_vars == <<doc, objects, reply, written, last, plain, moves>>
vars == <<bridge_vars, exec_vars>>

----------------------------------------------------------------------------
(* Bounds *)
NCallers == 2
MaxCalls == 3
MaxStarts == 2
MaxObjects == 3
MaxMoves == 2
MaxPopulation == 2

Callers == 1 .. NCallers
\* SimpleXMLRPCServer is not a threading server: serve_forever handles one
\* request at a time on the listener thread itself (caller 1).  The other
\* callers are further threads that use the bridge (spec.md section 5).
ListenerCaller == 1
CallIds == 1 .. MaxCalls

NoResult == [call_id |-> 0, outcome |-> "none", value |-> 0]

----------------------------------------------------------------------------
(* Statuses returned by comm_server.py *)
AlreadyRunning == "RPC Server already running."
Started == "RPC Server started at localhost:9875."
Stopped == "RPC Server stopped."
NotRunning == "RPC Server was not running."
Raised == "raised"

----------------------------------------------------------------------------
(* The Command Bridge: spec.md section 4.1 (utils.py is not in src/) *)

\* A PendingCall is [call_id, fails]: fails says whether the Operation
\* Executor raises for this call's operation and arguments.
PendingCall(id, fails) == [call_id |-> id, fails |-> fails]

\* The CallResult the executor's outcome for one call is turned into.
ExecutorResult(call) ==
    [call_id |-> call.call_id,
     outcome |-> IF call.fails THEN "failure" ELSE "success",
     value   |-> call.call_id]

BridgeTimeout(id) == [call_id |-> id, outcome |-> "timeout", value |-> 0]

\* The results a submitter waiting for call_id may take from the bridge.
AnyResponse(responses, id) == responses
Matching(responses, id) == {r \in responses : r.call_id = id}

\* The call a drain executes next.
NextCallNewest(q) == q[Len(q)]
NextCall(q) == Head(q)

\* The queue once call c was taken from it.
Remove(q, c) == SelectSeq(q, LAMBDA x : x # c)

\* Whether the running drain goes on to another call: it executes the calls
\* that were queued when it started, not those enqueued afterwards.
DrainMoreWhileNotEmpty(left, q) == q # <<>>
DrainMore(left, q) == left > 0 /\ q # <<>>

\* Whether an exception of the executor for this call is captured as a
\* failure result (always; it never aborts the drain).
CapturedUnlessRaised(call) == ~call.fails
Captured(call) == TRUE

\* No statement of comm_server.py deactivates or releases the bridge, so
\* the pump finds it active after every drain.
BridgeActive == TRUE

Ids(q) == [i \in 1 .. Len(q) |-> q[i].call_id]
IdSet(q) == {q[i].call_id : i \in 1 .. Len(q)}

----------------------------------------------------------------------------
(* comm_server.py *)

\* line 18: `if rpc_server_instance:`
NeverRunning(instance) == FALSE
IsRunning(instance) == instance # 0

\* start_rpc_server, line 18-19: a listener exists already.
StartAlreadyRunning ==
    /\ gui = "idle"
    /\ IsRunning(rpc_server_instance)
    /\ status' = AlreadyRunning
    /\ before' = [running |-> rpc_server_instance # 0,
                  servers |-> servers, threads |-> threads]
    /\ UNCHANGED <<exec_vars, rpc_server_instance, rpc_server_thread, servers, threads,
                   shutdown_request, n_started, stop_report, pump_vars,
                   drain_vars, caller_vars, request_queue, response_queue,
                   enqueued, arrived, arrived_exec>>

\* start_rpc_server, line 21: SimpleXMLRPCServer((host, port)) raises (the
\* port cannot be bound); nothing was assigned yet.
StartBindFails ==
    /\ gui = "idle"
    /\ ~IsRunning(rpc_server_instance)
    /\ status' = Raised
    /\ before' = [running |-> rpc_server_instance # 0,
                  servers |-> servers, threads |-> threads]
    /\ UNCHANGED <<exec_vars, rpc_server_instance, rpc_server_thread, servers, threads,
                   shutdown_request, n_started, stop_report, pump_vars,
                   drain_vars, caller_vars, request_queue, response_queue,
                   enqueued, arrived, arrived_exec>>

\* start_rpc_server, lines 21-35: the server instance, the listener thread
\* and one singleShot of process_gui_tasks.
StartOk ==
    /\ gui = "idle"
    /\ ~IsRunning(rpc_server_instance)
    /\ n_started < MaxStarts
    /\ LET id == n_started + 1 IN
        /\ n_started' = id
        /\ rpc_server_instance' = id
        /\ servers' = servers \cup {id}
        /\ rpc_server_thread' = id
        /\ threads' = threads \cup {id}
    /\ shutdown_request' = FALSE
    /\ timers' = timers + 1
    /\ status' = Started
    /\ before' = [running |-> rpc_server_instance # 0,
                  servers |-> servers, threads |-> threads]
    /\ UNCHANGED <<exec_vars, gui, stop_report, drain_vars, caller_vars, request_queue,
                   response_queue, enqueued, arrived, arrived_exec>>

\* stop_rpc_server, line 49: nothing to stop.
StopNotRunning ==
    /\ gui = "idle"
    /\ rpc_server_instance = 0
    /\ status' = NotRunning
    /\ UNCHANGED <<exec_vars, rpc_server_instance, rpc_server_thread, servers, threads,
                   shutdown_request, n_started, before, stop_report,
                   pump_vars, drain_vars, caller_vars, request_queue,
                   response_queue, enqueued, arrived, arrived_exec>>

\* stop_rpc_server, line 42: shutdown() sets the flag and blocks the
\* calling (GUI) thread until serve_forever has returned.
StopBegin ==
    /\ gui = "idle"
    /\ rpc_server_instance # 0
    /\ shutdown_request' = TRUE
    /\ gui' = "stop"
    /\ stop_report' = [t \in {u \in Callers :
                                 /\ pc[u] = "waiting"
                                 /\ Matching(response_queue, mine[u]) = {}}
                          |-> "waiting"]
    /\ UNCHANGED <<exec_vars, rpc_server_instance, rpc_server_thread, servers, threads,
                   n_started, status, before, timers, drain_vars,
                   caller_vars, request_queue, response_queue, enqueued,
                   arrived, arrived_exec>>

\* server_loop, line 28: serve_forever sees the flag between two requests
\* and returns; the listener thread ends.
ListenerExit ==
    /\ shutdown_request
    /\ rpc_server_thread \in threads
    /\ pc[ListenerCaller] # "waiting"
    /\ threads' = threads \ {rpc_server_thread}
    /\ UNCHANGED <<exec_vars, rpc_server_instance, rpc_server_thread, servers,
                   shutdown_request, n_started, status, before, stop_report,
                   pump_vars, drain_vars, caller_vars, request_queue,
                   response_queue, enqueued, arrived, arrived_exec>>

\* lines 44-45: `rpc_server_instance = None`, `rpc_server_thread = None`
NotCleared(global) == global
Cleared(global) == 0

\* stop_rpc_server, lines 43-47: join() returns, the globals are cleared.
\* The bridge is not touched: whoever waits in submit keeps waiting.
StopEnd ==
    /\ gui = "stop"
    /\ rpc_server_thread \notin threads
    /\ servers' = servers \ {rpc_server_instance}
    /\ rpc_server_instance' = Cleared(rpc_server_instance)
    /\ rpc_server_thread' = Cleared(rpc_server_thread)
    /\ shutdown_request' = FALSE
    /\ gui' = "idle"
    /\ status' = Stopped
    /\ UNCHANGED <<exec_vars, threads, n_started, before, stop_report, timers, drain_vars,
                   caller_vars, request_queue, response_queue, enqueued,
                   arrived, arrived_exec>>

----------------------------------------------------------------------------
(* Command Bridge operations (spec.md section 4.1) *)

\* How a submit that stop found waiting is recorded once it is resolved.
Resolve(t, outcome) ==
    IF t \in DOMAIN stop_report /\ stop_report[t] = "waiting" /\ gui = "stop"
    THEN [stop_report EXCEPT ![t] = outcome]
    ELSE stop_report

\* submit, first half: the call is appended to the FIFO and the caller
\* blocks.  The listener thread takes requests only inside serve_forever and
\* only while its shutdown flag is clear.
Submit(t, fails) ==
    /\ pc[t] = "idle"
    /\ next_id <= MaxCalls
    /\ t = ListenerCaller => (rpc_server_thread \in threads /\ ~shutdown_request)
    /\ LET call == PendingCall(next_id, fails) IN
        /\ request_queue' = Append(request_queue, call)
        /\ enqueued' = Append(enqueued, call)
    /\ pc' = [pc EXCEPT ![t] = "waiting"]
    /\ mine' = [mine EXCEPT ![t] = next_id]
    /\ got' = [got EXCEPT ![t] = NoResult]
    /\ next_id' = next_id + 1
    /\ arrived' = IF gui \in {"drain", "exec"}
                  THEN arrived \cup {next_id} ELSE arrived
    /\ arrived_exec' = IF gui = "exec"
                       THEN arrived_exec \cup {next_id} ELSE arrived_exec
    /\ UNCHANGED <<exec_vars, lifecycle_vars, pump_vars, drain_vars, response_queue,
                   delivered, stop_report>>

\* submit, second half: a CallResult for the caller's call_id is available;
\* the caller takes it and returns it.
SubmitReturn(t) ==
    /\ pc[t] = "waiting"
    /\ \E r \in Matching(response_queue, mine[t]) :
        /\ got' = [got EXCEPT ![t] = r]
        /\ response_queue' = response_queue \ {r}
        /\ stop_report' = Resolve(t, r.outcome)
    /\ pc' = [pc EXCEPT ![t] = "idle"]
    /\ delivered' = [delivered EXCEPT ![mine[t]] = @ + 1]
    /\ UNCHANGED <<exec_vars, lifecycle_vars, pump_vars, drain_vars, request_queue,
                   mine, next_id, enqueued, arrived, arrived_exec>>

\* submit, timeout: the caller gives up with BridgeTimeout; its call stays
\* where it is (queued, executing or executed).
SubmitTimeout(t) ==
    /\ pc[t] = "waiting"
    /\ got' = [got EXCEPT ![t] = BridgeTimeout(mine[t])]
    /\ pc' = [pc EXCEPT ![t] = "idle"]
    /\ delivered' = [delivered EXCEPT ![mine[t]] = @ + 1]
    /\ stop_report' = Resolve(t, "timeout")
    /\ UNCHANGED <<exec_vars, lifecycle_vars, pump_vars, drain_vars, request_queue,
                   response_queue, mine, next_id, enqueued, arrived,
                   arrived_exec>>

\* process_gui_tasks / drain_and_execute starts: a pending singleShot fires
\* on the idle GUI thread; the drain takes note of what is queued now.
PumpTick ==
    /\ gui = "idle"
    /\ timers > 0
    /\ timers' = timers - 1
    /\ gui' = "drain"
    /\ todo' = Len(request_queue)
    /\ drain_snapshot' = Ids(request_queue)
    /\ drain_executed' = <<>>
    /\ arrived' = {}
    /\ arrived_exec' = {}
    /\ UNCHANGED <<exec_vars, lifecycle_vars, cur, running, executed, produced,
                   caller_vars, request_queue, response_queue, enqueued,
                   stop_report>>

\* drain_and_execute hands the next call to the Operation Executor.
ExecStart ==
    /\ gui = "drain"
    /\ DrainMore(todo, request_queue)
    /\ LET call == NextCall(request_queue) IN
        /\ cur' = call
        /\ request_queue' = Remove(request_queue, call)
        /\ running' = running \cup {call.call_id}
        /\ executed' = Append(executed, call)
    /\ todo' = IF todo > 0 THEN todo - 1 ELSE 0
    /\ gui' = "exec"
    /\ UNCHANGED <<exec_vars, lifecycle_vars, timers, produced, drain_snapshot,
                   drain_executed, caller_vars, response_queue, enqueued,
                   arrived, arrived_exec, stop_report>>

\* The executor is done with the call: its value, or the exception it
\* raised, becomes the call's CallResult and the drain goes on.
ExecEnd ==
    /\ gui = "exec"
    /\ running' = running \ {cur.call_id}
    /\ drain_executed' = Append(drain_executed, cur.call_id)
    /\ IF Captured(cur)
       THEN /\ response_queue' = response_queue \cup {ExecutorResult(cur)}
            /\ produced' = [produced EXCEPT ![cur.call_id] =
                                Append(@, ExecutorResult(cur))]
            /\ gui' = "drain"
            /\ todo' = todo
       ELSE \* the exception leaves process_gui_tasks
            /\ gui' = "idle"
            /\ todo' = 0
            /\ UNCHANGED <<exec_vars, response_queue, produced>>
    /\ UNCHANGED <<exec_vars, lifecycle_vars, timers, cur, executed, drain_snapshot,
                   caller_vars, request_queue, enqueued, arrived,
                   arrived_exec, stop_report>>

\* drain_and_execute returns; the pump re-arms itself.
DrainEnd ==
    /\ gui = "drain"
    /\ ~DrainMore(todo, request_queue)
    /\ gui' = "idle"
    /\ timers' = IF BridgeActive THEN timers + 1 ELSE timers
    /\ UNCHANGED <<exec_vars, lifecycle_vars, drain_vars, caller_vars, request_queue,
                   response_queue, enqueued, arrived, arrived_exec,
                   stop_report>>

----------------------------------------------------------------------------
(* server.py: the Operation Executor.  FreeCAD (newDocument, addObject,    *)
(* getObject, recompute, saveAs) and Mesh are the host's API; server.py    *)
(* uses the global name FreeCAD without importing it, and the model takes  *)
(* the host to have bound it.                                              *)

\* Names a caller passes explicitly; some look like default names.  NoName
\* stands for a call that passes no name (`name` is None or not in args).
ExplicitNames == {"A", "Box_1"}
NoName == "None"
\* Names a caller gives boolean_operation as base_object and tool_object.
BaseNames == {"Box_0", "Missing"}
ToolNames == {"A", "Missing"}
Positions == {<<0, 0, 0>>}
Operations == {"cut", "intersection", "union", "xor"}
\* Names a caller gives move_object and rotate_object, the vectors it moves
\* by, the angles it rotates by and the positions it creates boxes at when
\* placement is looked at.
ObjectNames == {"Box_0", "A", "Missing"}
Vectors == {<<1, 0, 0>>, <<-1, 2, 0>>}
Angles == {90}
PlacePositions == {<<0, 0, 0>>, <<5, 0, 7>>}
\* The `objects` a caller gives export_stl.
ExportLists == {<<>>, <<"Missing">>, <<"A", "Box_0">>,
                <<"Missing", "Box_0", "Missing", "A">>}

\* The two ways into an operation: handle_tool_call (lines 221-252) and the
\* tool function setup_tools registers for it (lines 26-201).
Entries == {"handle_tool_call", "tool"}

\* What the caller hands over.  A tool function builds the whole argument
\* mapping from its parameters; handle_tool_call passes on whatever mapping
\* it was given, which may lack a required argument or a component of
\* `position`.
Shapes == {"complete", "no_required", "no_position_component"}
ShapesOf(entry) == IF entry = "tool" THEN {"complete"} ELSE Shapes

Origin == <<0, 0, 0>>

NoCall == [op |-> "none", named |-> FALSE, missing |-> FALSE,
           had_doc |-> FALSE, names |-> <<>>]
NoReply == [kind |-> "none", name |-> ""]

\* An exception leaving a private method.
Raise(exception) == [kind |-> "raised", name |-> exception]

\* Lines 222-252: handle_tool_call turns an exception into the string
\* "Error executing ..."; the tool functions (e.g. line 69) return what the
\* private method returns and have no handler.
Return(entry, outcome) ==
    IF outcome.kind = "raised" /\ entry = "handle_tool_call"
    THEN [kind |-> "Error executing", name |-> outcome.name]
    ELSE outcome

\* `if not self.doc:` (lines 258, 382, 428, 444, 469, 496)
DocumentAssumed(d) == FALSE
NoDocument(d) == d = 0

\* `if not self.doc: self.doc = FreeCAD.newDocument("Document")` (lines
\* 291-293, 311-315, 339-341, 346-348, 364-366, 373-375)
NotRepaired(d) == d
Repaired(d) == IF d = 0 THEN 1 ELSE d

NoDocumentAvailable == [kind |-> "No document available", name |-> ""]

\* f"{Kind}_{len(self.doc.Objects)}": lines 266, 297, 318, 350.
DefaultNameOneBased(kind, count) == kind \o "_" \o ToString(count + 1)
DefaultName(kind, count) == kind \o "_" \o ToString(count)

Names(objs) == {objs[i].name : i \in 1 .. Len(objs)}

\* self.doc.getObject(name): the object of that name, or None.
HasObject(objs, name) == name \in Names(objs)

\* self.doc.addObject(type, name): the host adds an object under `name`, or,
\* when the document has an object of that name already, under a name of
\* its own choice that is not in use.  Which name is the host's business.
\* The model lets it take a suffixed form of `name` or the next box-like
\* name, whichever is free.
Suffixed(objs, name) ==
    IF ~HasObject(objs, name \o "001") THEN name \o "001"
    ELSE IF ~HasObject(objs, name \o "002") THEN name \o "002"
    ELSE IF ~HasObject(objs, name \o "003") THEN name \o "003"
    ELSE name \o "004"

HostNames(objs, name) ==
    IF ~HasObject(objs, name) THEN {name}
    ELSE {n \in {Suffixed(objs, name), DefaultName("Box", Len(objs) + 1)} :
            ~HasObject(objs, n)}

\* An object of the document: its Placement.Base (pos) and rotation angle
\* (rot), for a boolean its Base and Tool.  `assigned` says whether every
\* property its creator was to set has been set; `created_at` keeps the
\* position it was created at.
Object(name, type, pos, base, tool) ==
    [name |-> name, type |-> type, pos |-> pos, rot |-> 0, base |-> base,
     tool |-> tool, assigned |-> TRUE, created_at |-> pos]

\* The object addObject returns before any property is assigned: it sits at
\* the host's default placement.
Fresh(name, type) ==
    [Object(name, type, Origin, "", "") EXCEPT !.assigned = FALSE]

\* lines 290-308, 310-330, 345-361: create_box, create_cylinder,
\* create_sphere share this shape.  The required arguments are looked up
\* before addObject; the components of `position` after it.
CreatePrimitive(op, kind, type, entry, shape, names, positions) ==
    \E name \in names \cup {NoName}, pos \in positions :
        /\ shape \in ShapesOf(entry)
        /\ doc' = Repaired(doc)
        /\ LET named == name # NoName
               requested == IF named THEN name
                            ELSE DefaultName(kind, Len(objects)) IN
            /\ IF shape = "no_required"
               THEN /\ UNCHANGED objects
                    /\ reply' = Return(entry, Raise("KeyError"))
               ELSE /\ Len(objects) < MaxObjects
                    /\ \E actual \in HostNames(objects, requested) :
                         objects' = Append(objects,
                            IF shape = "complete"
                            THEN Object(actual, type, pos, "", "")
                            ELSE Fresh(actual, type))
                    /\ reply' = IF shape = "complete"
                                THEN [kind |-> "Created", name |-> requested]
                                ELSE Return(entry, Raise("KeyError"))
            /\ last' = [NoCall EXCEPT !.op = op, !.named = named,
                                      !.had_doc = doc # 0]
            /\ plain' = IF shape = "no_required" THEN plain
                         ELSE (plain /\ op = "create_box" /\ ~named)
        /\ written' = <<>>
        /\ UNCHANGED <<moves, bridge_vars>>

create_box(entry, shape, names, positions) ==
    CreatePrimitive("create_box", "Box", "Part::Box", entry, shape, names,
                    positions)
create_cylinder(entry, shape, names, positions) ==
    CreatePrimitive("create_cylinder", "Cylinder", "Part::Cylinder", entry,
                    shape, names, positions)
create_sphere(entry, shape, names, positions) ==
    CreatePrimitive("create_sphere", "Sphere", "Part::Sphere", entry, shape,
                    names, positions)

\* lines 332-336: the active document is replaced by a new, empty one.
create_document ==
    /\ doc' = 1
    /\ objects' = <<>>
    /\ reply' = [kind |-> "Created document", name |-> ""]
    /\ last' = [NoCall EXCEPT !.op = "create_document", !.had_doc = doc # 0]
    /\ plain' = TRUE
    /\ written' = <<>>
    /\ moves' = <<>>
    /\ UNCHANGED bridge_vars

\* lines 338-343, 363-379: create_sketch, create_pad, create_pocket.
NotImplemented(op) ==
    /\ doc' = Repaired(doc)
    /\ reply' = [kind |-> "Not implemented", name |-> ""]
    /\ last' = [NoCall EXCEPT !.op = op, !.had_doc = doc # 0]
    /\ written' = <<>>
    /\ UNCHANGED <<objects, plain, moves, bridge_vars>>

create_sketch == NotImplemented("create_sketch")
create_pad == NotImplemented("create_pad")
create_pocket == NotImplemented("create_pocket")

\* lines 269-273: both objects must be in the document.
FoundBaseOnly(objs, base, tool) == HasObject(objs, base)
Found(objs, base, tool) == HasObject(objs, base) /\ HasObject(objs, tool)

\* lines 275-282
BooleanType(operation) ==
    CASE operation = "cut" -> "Part::Cut"
      [] operation = "intersection" -> "Part::Common"
      [] operation = "union" -> "Part::Fuse"
      [] OTHER -> ""

\* lines 257-288
boolean_operation(entry, shape, names) ==
    \E operation \in Operations, base \in BaseNames, tool \in ToolNames,
       name \in names \cup {NoName} :
        /\ shape \in ShapesOf(entry) \ {"no_position_component"}
        /\ LET named == name # NoName
               requested == IF named THEN name
                            ELSE DefaultName(operation, Len(objects))
               call == [NoCall EXCEPT
                           !.op = "boolean_operation", !.named = named,
                           !.missing = ~(base \in Names(objects)
                                         /\ tool \in Names(objects)),
                           !.had_doc = doc # 0]
           IN
            /\ last' = call
            /\ IF NoDocument(doc)
               THEN /\ reply' = NoDocumentAvailable
                    /\ UNCHANGED objects
               ELSE IF shape = "no_required"
               THEN /\ reply' = Return(entry, Raise("KeyError"))
                    /\ UNCHANGED objects
               ELSE IF ~Found(objects, base, tool)
               THEN /\ reply' = [kind |-> "Could not find objects", name |-> ""]
                    /\ UNCHANGED objects
               ELSE IF BooleanType(operation) = ""
               THEN /\ reply' = [kind |-> "Unknown operation", name |-> ""]
                    /\ UNCHANGED objects
               ELSE /\ Len(objects) < MaxObjects
                    /\ \E actual \in HostNames(objects, requested) :
                         objects' = Append(objects,
                            Object(actual, BooleanType(operation), Origin,
                                   base, tool))
                    /\ reply' = [kind |-> "Created", name |-> requested]
            /\ plain' = (plain /\ objects' = objects)
        /\ written' = <<>>
        /\ UNCHANGED <<doc, moves, bridge_vars>>

\* lines 392-397: the objects of the document among `names`, in the order
\* of `names`; a name the document does not have is skipped.
ResolvedAll(objs, names) == names
Resolved(objs, names) == SelectSeq(names, LAMBDA n : HasObject(objs, n))

\* lines 381-425.  host_ok: Mesh.write(filepath) succeeds; when it raises,
\* no file is there.
export_stl(entry, shape, names, host_ok) ==
    /\ shape \in ShapesOf(entry) \ {"no_position_component"}
    /\ LET meshes == Resolved(objects, names)
           outcome ==
              IF NoDocument(doc) THEN NoDocumentAvailable
              ELSE IF shape = "no_required" THEN Raise("KeyError")
              ELSE IF Len(meshes) = 0
              THEN [kind |-> "No valid objects found for export", name |-> ""]
              ELSE IF ~host_ok THEN Raise("OSError")
              ELSE [kind |-> "Exported", name |-> ""]
       IN
        /\ reply' = Return(entry, outcome)
        /\ written' = IF outcome.kind = "Exported"
                      THEN <<[by |-> "write", holds |-> meshes]>>
                      ELSE <<>>
    /\ last' = [NoCall EXCEPT !.op = "export_stl", !.had_doc = doc # 0,
                              !.names = names]
    /\ UNCHANGED <<doc, objects, plain, moves, bridge_vars>>

\* lines 427-441
list_objects ==
    /\ reply' = IF NoDocument(doc) THEN NoDocumentAvailable
                ELSE [kind |-> "Objects in document", name |-> ""]
    /\ last' = [NoCall EXCEPT !.op = "list_objects", !.had_doc = doc # 0]
    /\ written' = <<>>
    /\ UNCHANGED <<doc, objects, plain, moves, bridge_vars>>

\* lines 456-463: the new Placement.Base is the current one plus the vector.
MovedTo(pos, vec) == vec
Moved(pos, vec) == <<pos[1] + vec[1], pos[2] + vec[2], pos[3] + vec[3]>>

\* self.doc.getObject(name) when the document has the object.
GetObject(objs, name) ==
    objs[CHOOSE i \in 1 .. Len(objs) : objs[i].name = name]

\* The objects once the object called `name` has become `changed`.
Update(objs, name, changed) ==
    [i \in 1 .. Len(objs) |->
        IF objs[i].name = name THEN changed ELSE objs[i]]

\* lines 443-466.  `vector` is looked up (line 450) before the object is
\* found missing (line 452).
move_object(entry, shape, object_name, vec) ==
    /\ shape \in ShapesOf(entry) \ {"no_position_component"}
    /\ LET outcome ==
              IF NoDocument(doc) THEN NoDocumentAvailable
              ELSE IF shape = "no_required" THEN Raise("KeyError")
              ELSE IF ~HasObject(objects, object_name)
              THEN [kind |-> "Object not found", name |-> object_name]
              ELSE [kind |-> "Moved", name |-> object_name]
       IN
        /\ reply' = Return(entry, outcome)
        /\ IF outcome.kind = "Moved"
           THEN /\ Len(moves) < MaxMoves
                /\ objects' = Update(objects, object_name,
                                [GetObject(objects, object_name)
                                    EXCEPT !.pos = Moved(@, vec)])
                /\ moves' = Append(moves, [name |-> object_name, by |-> vec])
           ELSE UNCHANGED <<objects, moves>>
    /\ last' = [NoCall EXCEPT !.op = "move_object", !.had_doc = doc # 0]
    /\ written' = <<>>
    /\ UNCHANGED <<doc, plain, bridge_vars>>

\* lines 468-493: the placement becomes Placement(base, rotation), base the
\* current Placement.Base.
rotate_object(entry, shape, object_name, angle) ==
    /\ shape \in ShapesOf(entry) \ {"no_position_component"}
    /\ LET outcome ==
              IF NoDocument(doc) THEN NoDocumentAvailable
              ELSE IF shape = "no_required" THEN Raise("KeyError")
              ELSE IF ~HasObject(objects, object_name)
              THEN [kind |-> "Object not found", name |-> object_name]
              ELSE [kind |-> "Rotated", name |-> object_name]
       IN
        /\ reply' = Return(entry, outcome)
        /\ objects' = IF outcome.kind = "Rotated"
                      THEN Update(objects, object_name,
                                  [GetObject(objects, object_name)
                                      EXCEPT !.rot = angle])
                      ELSE objects
    /\ last' = [NoCall EXCEPT !.op = "rotate_object", !.had_doc = doc # 0]
    /\ written' = <<>>
    /\ UNCHANGED <<doc, plain, moves, bridge_vars>>

\* lines 495-505.  host_ok: self.doc.saveAs(filepath) succeeds.
save_document(entry, shape, host_ok) ==
    /\ shape \in ShapesOf(entry) \ {"no_position_component"}
    /\ LET outcome ==
              IF NoDocument(doc) THEN NoDocumentAvailable
              ELSE IF shape = "no_required" THEN Raise("KeyError")
              ELSE IF ~host_ok THEN Raise("OSError")
              ELSE [kind |-> "Document saved", name |-> ""]
       IN
        /\ reply' = Return(entry, outcome)
        /\ written' = IF outcome.kind = "Document saved"
                      THEN <<[by |-> "saveAs",
                              holds |-> [i \in 1 .. Len(objects) |->
                                            objects[i].name]]>>
                      ELSE <<>>
    /\ last' = [NoCall EXCEPT !.op = "save_document", !.had_doc = doc # 0]
    /\ UNCHANGED <<doc, objects, plain, moves, bridge_vars>>

\* lines 249-250: handle_tool_call with a name that is no tool.
unknown_tool ==
    /\ reply' = [kind |-> "Unknown tool", name |-> ""]
    /\ last' = [NoCall EXCEPT !.op = "unknown", !.had_doc = doc # 0]
    /\ written' = <<>>
    /\ UNCHANGED <<doc, objects, plain, moves, bridge_vars>>

----------------------------------------------------------------------------
Init ==
    /\ rpc_server_instance = 0
    /\ rpc_server_thread = 0
    /\ servers = {}
    /\ threads = {}
    /\ shutdown_request = FALSE
    /\ n_started = 0
    /\ timers = 0
    /\ gui = "idle"
    /\ status = "none"
    /\ request_queue = <<>>
    /\ response_queue = {}
    /\ todo = 0
    /\ cur = PendingCall(0, FALSE)
    /\ running = {}
    /\ pc = [t \in Callers |-> "idle"]
    /\ mine = [t \in Callers |-> 0]
    /\ got = [t \in Callers |-> NoResult]
    /\ next_id = 1
    /\ enqueued = <<>>
    /\ executed = <<>>
    /\ produced = [c \in CallIds |-> <<>>]
    /\ delivered = [c \in CallIds |-> 0]
    /\ drain_snapshot = <<>>
    /\ drain_executed = <<>>
    /\ arrived = {}
    /\ arrived_exec = {}
    /\ before = [running |-> FALSE, servers |-> {}, threads |-> {}]
    /\ stop_report = <<>>
    /\ doc = 0
    /\ objects = <<>>
    /\ reply = NoReply
    /\ last = NoCall
    /\ plain = TRUE
    /\ written = <<>>
    /\ moves = <<>>

Next ==
    \/ StartAlreadyRunning
    \/ StartBindFails
    \/ StartOk
    \/ StopNotRunning
    \/ StopBegin
    \/ ListenerExit
    \/ StopEnd
    \/ \E fails \in BOOLEAN : Submit(ListenerCaller, fails)
    \/ SubmitReturn(ListenerCaller)
    \/ SubmitTimeout(ListenerCaller)
    \/ PumpTick
    \/ ExecStart
    \/ ExecEnd
    \/ DrainEnd

\* The lifecycle with the bridge as comm_server.py runs it: the one listener
\* thread hands its requests to the bridge one at a time.
Spec == Init /\ [][Next]_vars

\* The bridge under several caller threads once the pump is armed: start,
\* then submits and pump ticks.  The other lifecycle operations read and
\* write nothing of the bridge.
BridgeNext ==
    \/ StartOk
    \/ \E t \in Callers, fails \in BOOLEAN : Submit(t, fails)
    \/ \E t \in Callers : SubmitReturn(t)
    \/ \E t \in Callers : SubmitTimeout(t)
    \/ PumpTick
    \/ ExecStart
    \/ ExecEnd
    \/ DrainEnd

SpecBridge == Init /\ [][BridgeNext]_vars

\* Creation and boolean operations on well-formed calls.
ExecNext ==
    \/ create_document
    \/ create_box("tool", "complete", ExplicitNames, Positions)
    \/ create_cylinder("tool", "complete", ExplicitNames, Positions)
    \/ create_sphere("tool", "complete", ExplicitNames, Positions)
    \/ boolean_operation("tool", "complete", ExplicitNames)

SpecExec == Init /\ [][ExecNext]_vars

\* Placement: up to MaxPopulation boxes created at several positions, moved
\* and rotated.
PlaceNext ==
    \/ create_document
    \/ /\ Len(objects) < MaxPopulation
       /\ create_box("tool", "complete", {"A"}, PlacePositions)
    \/ \E object_name \in ObjectNames, vec \in Vectors :
         move_object("tool", "complete", object_name, vec)
    \/ \E object_name \in ObjectNames, angle \in Angles :
         rotate_object("tool", "complete", object_name, angle)

SpecPlace == Init /\ [][PlaceNext]_vars

\* Every tool, entered either way, with every shape of arguments that way
\* in allows; the creators fill the document up to MaxPopulation objects,
\* of which only boxes are given a name.
ToolsNext ==
    \/ create_document
    \/ /\ Len(objects) < MaxPopulation
       /\ \E entry \in Entries, shape \in Shapes :
            create_box(entry, shape, {"A"}, Positions)
    \/ /\ Len(objects) < MaxPopulation
       /\ \E entry \in Entries, shape \in Shapes :
            create_cylinder(entry, shape, {}, Positions)
    \/ /\ Len(objects) < MaxPopulation
       /\ \E entry \in Entries, shape \in Shapes :
            create_sphere(entry, shape, {}, Positions)
    \/ create_sketch
    \/ create_pad
    \/ create_pocket
    \/ \E entry \in Entries, shape \in Shapes :
         boolean_operation(entry, shape, {})
    \/ \E entry \in Entries, shape \in Shapes, names \in ExportLists,
          host_ok \in BOOLEAN : export_stl(entry, shape, names, host_ok)
    \/ list_objects
    \/ \E entry \in Entries, shape \in Shapes :
         move_object(entry, shape, "Missing", Origin)
    \/ \E entry \in Entries, shape \in Shapes :
         rotate_object(entry, shape, "Missing", 90)
    \/ \E entry \in Entries, shape \in Shapes, host_ok \in BOOLEAN :
         save_document(entry, shape, host_ok)
    \/ unknown_tool

SpecTools == Init /\ [][ToolsNext]_vars

----------------------------------------------------------------------------
(* Properties of the Command Bridge (SpecBridge) *)

Range(q) == {q[i] : i \in 1 .. Len(q)}

\* C1: for every interleaving of submits and pump ticks the calls are
\* executed strictly in the order they were enqueued, and a call's execution
\* finishes before the next call's execution starts.
C1_FifoSerial ==
    /\ Len(executed) <= Len(enqueued)
    /\ \A i \in 1 .. Len(executed) : executed[i] = enqueued[i]
    /\ Cardinality(running) <= 1
    /\ \A i \in 1 .. Len(executed) :
         i < Len(executed) => executed[i].call_id \notin running

\* A second call is being executed while a third one waits in the queue,
\* the calls coming from two caller threads.
C1_Witness ==
    /\ Len(executed) = 2
    /\ running = {executed[2].call_id}
    /\ Len(request_queue) = 1
    /\ mine[1] # 0 /\ mine[2] # 0

\* C2: every call gets at most one CallResult and every submit returns once,
\* with the result produced for its own call_id or with BridgeTimeout; a
\* call whose execution is over has its CallResult whether or not the
\* executor failed and whether or not its submitter had given up.
C2_OwnResultOnce ==
    /\ \A c \in CallIds : Len(produced[c]) <= 1 /\ delivered[c] <= 1
    /\ \A t \in Callers :
         got[t] # NoResult =>
            /\ got[t].call_id = mine[t]
            /\ delivered[mine[t]] = 1
            /\ \/ got[t] = BridgeTimeout(mine[t])
               \/ got[t] \in Range(produced[mine[t]])
    /\ \A t \in Callers :
         (pc[t] = "idle" /\ mine[t] # 0) => got[t] # NoResult
    /\ \A i \in 1 .. Len(executed) :
         executed[i].call_id \notin running
            => Len(produced[executed[i].call_id]) = 1

\* One submitter gave up on a timeout and its call's result was produced
\* afterwards; another submitter then got the failure of its own call.
C2_Witness ==
    \E t, u \in Callers :
        /\ t # u
        /\ got[t] = BridgeTimeout(mine[t])
        /\ Len(produced[mine[t]]) = 1
        /\ mine[t] < mine[u]
        /\ got[u].outcome = "failure"

C7_FailureIsolated ==
    /\ \A c \in CallIds : \A i \in 1 .. Len(produced[c]) :
         produced[c][i] =
            [call_id |-> c,
             outcome |-> IF enqueued[c].fails THEN "failure" ELSE "success",
             value |-> c]
    /\ gui = "idle" =>
         \A i \in 1 .. Len(drain_snapshot) :
            /\ drain_snapshot[i] \in Range(drain_executed)
            /\ Len(produced[drain_snapshot[i]]) = 1

\* A drain found a failing call with a succeeding call behind it and has
\* returned.
C7_Witness ==
    /\ gui = "idle"
    /\ Len(drain_snapshot) = 2
    /\ enqueued[drain_snapshot[1]].fails
    /\ ~enqueued[drain_snapshot[2]].fails
    /\ produced[drain_snapshot[2]] # <<>>

----------------------------------------------------------------------------
(* Properties of the lifecycle (Spec) *)

\* C3: at most one listener server instance and one listener thread exist;
\* a start that finds a listener running returns "already running" and
\* creates neither a server nor a thread.
C3_SingleListener ==
    /\ Cardinality(servers) <= 1
    /\ Cardinality(threads) <= 1
    /\ status = AlreadyRunning => before.running
    /\ status \in {Started, Raised} => ~before.running
    /\ (status = AlreadyRunning /\ gui = "idle") =>
         /\ servers = before.servers
         /\ threads = before.threads

\* The second listener (after a stop) is running and start was called again.
C3_Witness ==
    /\ status = AlreadyRunning
    /\ rpc_server_instance = 2
    /\ servers = {2}
    /\ threads = {2}

\* C4 as stated: a submit that is waiting when stop is invoked has been
\* resolved with a shutdown failure when stop returns.
C4_StopResolvesWaiters ==
    (status = Stopped /\ gui = "idle") =>
        \A t \in DOMAIN stop_report : stop_report[t] = "shutdown"

\* Everything but `status`.
AllButStatus ==
    <<rpc_server_instance, rpc_server_thread, servers, threads,
      shutdown_request, n_started, before, stop_report, pump_vars,
      drain_vars, caller_vars, request_queue, response_queue, enqueued,
      arrived, arrived_exec, exec_vars>>

\* C15: a stop that finds no listener returns "not running" and changes
\* nothing.  When a stop has returned "stopped" no server, no thread and no
\* global is left, so the next start is not refused as "already running" and
\* what it creates is a listener that did not exist before, and the next
\* stop finds nothing and reports "not running".
C15_StopIdempotent ==
    /\ []((status \in {Stopped, NotRunning}) =>
            /\ rpc_server_instance = 0
            /\ rpc_server_thread = 0
            /\ servers = {}
            /\ threads = {}
            /\ gui # "stop")
    /\ [][(status' = NotRunning /\ status # NotRunning) =>
            UNCHANGED AllButStatus]_vars
    /\ [][status = Stopped =>
            /\ status' \in {Stopped, NotRunning, Started, Raised}
            /\ status' = Started =>
                 /\ rpc_server_instance' > n_started
                 /\ servers' = {rpc_server_instance'}
                 /\ threads' = {rpc_server_instance'}
                 /\ rpc_server_thread' = rpc_server_instance']_vars

\* start, stop, start, stop and stop once more: the second listener is
\* gone and the last stop found nothing to stop.
C15_Witness ==
    /\ status = NotRunning
    /\ n_started = 2
    /\ rpc_server_instance = 0
    /\ threads = {}

\* C17 as stated: once stop has returned no pump callback is pending, and
\* whatever the sequence of start and stop calls at most one is.
C17_OnePumpWhileActive ==
    /\ timers <= 1
    /\ (status = Stopped /\ gui = "idle") => timers = 0

----------------------------------------------------------------------------
(* Properties of the Operation Executor (SpecExec) *)

ExpectedDefault ==
    [create_box |-> <<"Box_0", "Box_1", "Box_2", "Box_3", "Box_4", "Box_5">>,
     create_cylinder |-> <<"Cylinder_0", "Cylinder_1", "Cylinder_2",
                           "Cylinder_3", "Cylinder_4", "Cylinder_5">>,
     create_sphere |-> <<"Sphere_0", "Sphere_1", "Sphere_2", "Sphere_3",
                         "Sphere_4", "Sphere_5">>]

C9_DefaultNameUnused ==
    /\ \A i, j \in 1 .. Len(objects) :
         i # j => objects[i].name # objects[j].name
    /\ (~last.named /\ reply.kind = "Created") =>
         reply.name \notin Names(SubSeq(objects, 1, Len(objects) - 1))

\* C10: boolean_operation with a base or tool name that is not in the active
\* document returns the not-found failure and leaves the document and its
\* objects as they were, whatever the operation.
C10_MissingObjectNoChange ==
    [][(last'.op = "boolean_operation" /\ last'.had_doc /\ last'.missing)
          => (/\ reply'.kind = "Could not find objects"
              /\ objects' = objects
              /\ doc' = doc)]_vars

\* A cut whose tool is missing was refused on a document that has objects.
C10_Witness ==
    /\ last.op = "boolean_operation"
    /\ last.had_doc
    /\ last.missing
    /\ HasObject(objects, "Box_0")
    /\ reply.kind = "Could not find objects"

----------------------------------------------------------------------------
(* Properties of placement (SpecPlace) *)

\* The vectors of the successful moves of the object called `name`, in call
\* order.
DeltasOf(name) ==
    LET ms == SelectSeq(moves, LAMBDA m : m.name = name)
    IN [i \in 1 .. Len(ms) |-> ms[i].by]

Reverse(s) == [i \in 1 .. Len(s) |-> s[Len(s) + 1 - i]]

RECURSIVE SumOf(_)
SumOf(vs) ==
    IF vs = <<>> THEN <<0, 0, 0>>
    ELSE LET rest == SumOf(Tail(vs))
         IN <<Head(vs)[1] + rest[1], Head(vs)[2] + rest[2],
              Head(vs)[3] + rest[3]>>

\* The position after moving by the vectors vs one after another.
RECURSIVE Replay(_, _)
Replay(pos, vs) ==
    IF vs = <<>> THEN pos ELSE Replay(Moved(pos, Head(vs)), Tail(vs))

\* C11: after any sequence of successful move_object calls an object is at
\* the position it was created at plus the component-wise sum of the
\* vectors it was moved by; the same moves made in the opposite order lead
\* to the same position; a move changes nothing of any other object, and
\* nothing but the position of the moved one.
C11_MoveAdditive ==
    /\ [](\A i \in 1 .. Len(objects) :
            LET o == objects[i]
                ds == DeltasOf(o.name)
                total == SumOf(ds)
            IN /\ o.pos = <<o.created_at[1] + total[1],
                            o.created_at[2] + total[2],
                            o.created_at[3] + total[3]>>
               /\ o.pos = Replay(o.created_at, Reverse(ds)))
    /\ [][(last'.op = "move_object" /\ reply'.kind = "Moved") =>
            /\ Len(objects') = Len(objects)
            /\ \A i \in 1 .. Len(objects) :
                 IF objects[i].name = reply'.name
                 THEN objects'[i] = [objects[i] EXCEPT !.pos = objects'[i].pos]
                 ELSE objects'[i] = objects[i]]_vars

\* Box_0, created away from the origin and rotated, was moved twice by
\* different vectors while another box stayed where it was created.
C11_Witness ==
    /\ Len(moves) = 2
    /\ moves[1].name = "Box_0" /\ moves[2].name = "Box_0"
    /\ moves[1].by # moves[2].by
    /\ \E i, j \in 1 .. Len(objects) :
         /\ objects[i].name = "Box_0"
         /\ objects[i].created_at = <<5, 0, 7>>
         /\ objects[i].pos = <<5, 2, 7>>
         /\ objects[i].rot = 90
         /\ objects[j].name = "A"
         /\ objects[j].pos = <<5, 0, 7>>

----------------------------------------------------------------------------
(* Properties of the tools (SpecTools) *)

\* Those of `names` that are in `have`, in the order of `names`.
RECURSIVE Present(_, _)
Present(names, have) ==
    IF names = <<>> THEN <<>>
    ELSE IF Head(names) \in have
         THEN <<Head(names)>> \o Present(Tail(names), have)
         ELSE Present(Tail(names), have)

\* The replies by which an exception shows: escaped, or turned into a string
\* by handle_tool_call.
Raising == {"raised", "Error executing"}

\* C12: export_stl on an active document skips the names the document does
\* not have.  When none is left (an empty list, or only missing names) it
\* returns the nothing-to-export result and writes no file; otherwise it
\* writes exactly one file, which holds the meshes of the objects found in
\* the order of the list.  (Calls in which a lookup of an argument or the
\* host's write raises are not the claim's case.)
C12_ExportSkipsMissing ==
    (last.op = "export_stl" /\ last.had_doc /\ reply.kind \notin Raising) =>
        LET found == Present(last.names, Names(objects)) IN
            IF found = <<>>
            THEN /\ reply.kind = "No valid objects found for export"
                 /\ written = <<>>
            ELSE /\ reply.kind = "Exported"
                 /\ written = <<[by |-> "write", holds |-> found]>>

\* An export of Box_0 and A with missing names among them: one file, the
\* two meshes in the order of the list and the missing names left out.
C12_Witness ==
    /\ last.op = "export_stl"
    /\ last.names = <<"Missing", "Box_0", "Missing", "A">>
    /\ Len(objects) >= 2
    /\ objects[1].name = "Box_0"
    /\ written = <<[by |-> "write", holds |-> <<"Box_0", "A">>]>>

Creators == {"create_document", "create_box", "create_cylinder",
             "create_sphere", "create_sketch", "create_pad", "create_pocket"}

\* C13: the document handle is absent until the first operation; after
\* create_document or any call of create_box, create_cylinder, create_sphere,
\* create_sketch, create_pad or create_pocket it is present, also when the
\* call found it absent; no operation makes a present handle absent.
C13_DocumentHandle ==
    /\ [](last.op = "none" => doc = 0)
    /\ [](last.op \in Creators => doc # 0)
    /\ [][doc # 0 => doc' # 0]_vars

\* create_pad was called with no document and left one behind.
C13_Witness ==
    /\ last.op = "create_pad"
    /\ ~last.had_doc
    /\ doc # 0
    /\ objects = <<>>

NeedDocument == {"boolean_operation", "move_object", "rotate_object",
                 "export_stl", "list_objects", "save_document"}

\* C14: boolean_operation, move_object, rotate_object, export_stl,
\* list_objects and save_document called with no active document return the
\* no-document failure, whatever their arguments; the handle is absent
\* afterwards and no object and no file was created.
C14_NoDocumentFailure ==
    /\ [](doc = 0 => objects = <<>>)
    /\ []((last.op \in NeedDocument /\ ~last.had_doc) =>
            /\ reply = NoDocumentAvailable
            /\ doc = 0
            /\ written = <<>>)
    /\ [][(last'.op \in NeedDocument /\ doc = 0) =>
            (doc' = 0 /\ objects' = objects)]_vars

\* export_stl was asked for two objects when there was no document.
C14_Witness ==
    /\ last.op = "export_stl"
    /\ last.names = <<"A", "Box_0">>
    /\ ~last.had_doc
    /\ reply = NoDocumentAvailable

\* C16 as stated: whichever way an operation is entered and whatever the
\* arguments, the caller gets a result; no exception reaches it.
C16_NoExceptionEscapes == reply.kind # "raised"

Failures == {"No document available", "Could not find objects",
             "Object not found", "Unknown tool", "Unknown operation",
             "Error executing"}

\* C18 as stated: an operation that reports a failure leaves the objects of
\* the document, and every property of each, as they were before the call.
C18_FailureChangesNothing ==
    [][reply'.kind \in Failures => objects' = objects]_vars

=============================================================================
